---- MODULE Spec2Model ----
(***************************************************************************)
(* Model of the Order Service (src/services/Order service/server.js,       *)
(* lines 1-326), of the API Gateway appended to the same file (lines       *)
(* 327-497) and of the Product Service lookup the Order Service consumes   *)
(* (src/unnamed/part_000, lines 57-318).                                   *)
(*                                                                         *)
(* Money is counted in mills (1/1000 of the currency unit) for the values  *)
(* JavaScript computes and the Product Service returns, and in cents for   *)
(* the values the DECIMAL(10,2) columns hold; RoundCents is the conversion *)
(* PostgreSQL applies on INSERT.                                           *)
(*                                                                         *)
(* What the model leaves out: JavaScript's floating point error (sums are  *)
(* exact), the pagination of GET /orders, shipping_address, failures of    *)
(* the statements issued through pool.query, and malformed JSON bodies     *)
(* (express.json() answers those before any route).  An UPDATE that would  *)
(* wait for a row lock is a step that is not enabled.  The id of an item   *)
(* row is its position in the call's item list.  The gateway's backends    *)
(* are abstract: each dispatched request is answered by one of a few       *)
(* status/body pairs or not at all; a body is the value axios parsed and   *)
(* res.json() writes back.                                                 *)
(***************************************************************************)
EXTENDS Integers, Sequences, FiniteSets, TLC

(***************************************************************************)
(* Bounds of the model.                                                    *)
(***************************************************************************)
MaxUser == 2
NumConns == 2
NumReqs == 2
MaxItems == 2
MaxCalls == 2
MaxQuantity == 1
MaxCreating == 1
NumSlots == 2
MaxGwRequests == 2
MaxBurst == 103

Users == 1..MaxUser
Conns == 1..NumConns
Reqs == 1..NumReqs
OrderIds == 1..MaxCalls

\* The documents of the catalog, and the product ids a caller may name:
\* "p9" names no document.
Products == {"p1"}
ProductIds == Products \cup {"p9"}
\* Prices the catalog may hold, in mills: 0.125 and 0.50.
Prices == {125, 500}
\* Quantities a caller submits under Spec and SpecStatus.
Quantities == 1..MaxQuantity

\* Bearer credentials: no header, a token that fails verification, or a
\* token the User Service signed for user u (claim userId = u).
Creds == {<<"none", 0>>, <<"bad", 0>>} \cup {<<"token", u>> : u \in Users}

\* validStatuses with a seventh status let through.
validStatusesWide == {"pending", "confirmed", "processing", "shipped", "delivered",
                      "cancelled", "refunded"}

\* const validStatuses of PATCH /orders/:id/status.
validStatuses == {"pending", "confirmed", "processing", "shipped", "delivered", "cancelled"}

VARIABLES
  catalog,      \* Product Service: id of an active document -> its price
  orders,       \* committed rows of table orders
  order_items,  \* committed rows of table order_items
  orderSeq,     \* last value of the sequence orders_id_seq
  conns,        \* pool connection -> its open transaction and uncommitted rows
  checkedOut,   \* pool connections held by a createOrder call
  reqs,         \* request slot -> the handler invocation running in it
  nCalls,       \* number of createOrder calls started (names the calls)
  failedCalls,  \* history: [call, k] for a call whose lookup of item k failed
  lastUpdate,   \* history: order id -> status set by the UPDATE executed last
  rateLimit,    \* gateway: client key -> its bucket {count, resetTime}
  now,          \* gateway: Date.now(), in milliseconds
  gw,           \* gateway: slot -> the request awaiting its backend in it
  lastAnswered, \* history: the request the gateway answered last, as answered
  nGw,          \* history: number of requests the gateway received
  admitted      \* history: client key -> instant -> requests the limiter let pass

vars == <<catalog, orders, order_items, orderSeq, conns, checkedOut, reqs,
          nCalls, failedCalls, lastUpdate, rateLimit, now, gw, lastAnswered, nGw, admitted>>

orderVars == <<catalog, orders, order_items, orderSeq, conns, checkedOut, reqs,
               nCalls, failedCalls, lastUpdate>>
gwVars == <<rateLimit, now, gw, lastAnswered, nGw, admitted>>

(***************************************************************************)
(* Values.                                                                 *)
(***************************************************************************)
NoBody == [error |-> "", order |-> {}, items |-> {}, orders |-> {}]

FreeReq == [op |-> "none", pc |-> "free", cred |-> <<"none", 0>>, userId |-> 0,
            call |-> 0, items |-> <<>>, shippingAddress |-> "", k |-> 0,
            validatedItems |-> <<>>,
            totalAmount |-> 0, client |-> 0, orderId |-> 0,
            status |-> "", prev |-> "", res |-> 0, body |-> NoBody]

FreshConn == [tx |-> FALSE, orders |-> {}, items |-> {}]

\* The shippingAddress of a request body.
ShippingAddresses == {"1 Main St"}

ItemLists == UNION {[1..n -> [productId : ProductIds, quantity : Quantities]] : n \in 0..MaxItems}

productName(p) == "Wireless Headphones"

(* Values of the API Gateway. *)
RATE_LIMIT_WINDOW == 60000
RATE_LIMIT_MAX_REQUESTS == 100

Slots == 1..NumSlots
Clients == {"ip1", "ip2"}
\* Times at which requests arrive: the start, the last millisecond of the
\* window opened at the start, and the first millisecond after it.
Instants == {0, RATE_LIMIT_WINDOW, RATE_LIMIT_WINDOW + 1}

SERVICES == [user |-> "http://localhost:3001",
             product |-> "http://localhost:3002",
             order |-> "http://localhost:3003"]

\* Requests, as <<method, <<mount prefix, rest of the path>>>>.
Requests == {<<"GET", <<"/health", "">>>>, <<"POST", <<"/health", "">>>>,
             <<"GET", <<"/metrics", "">>>>, <<"GET", <<"/api/users", "/1">>>>,
             <<"POST", <<"/api/auth", "/login">>>>,
             <<"GET", <<"/api/products", "/1">>>>,
             <<"POST", <<"/api/orders", "">>>>, <<"GET", <<"/nowhere", "">>>>}

GwCreds == {<<"none", 0>>, <<"bad", 0>>, <<"token", 1>>}

\* What a backend sends back: a status and the value of its body.  The last
\* one is the text body of a route the backend does not have.
BackendAnswers == {[status |-> 201, data |-> "{order}"],
                   [status |-> 404, data |-> "{error: x}"],
                   [status |-> 404, data |-> "Cannot PUT"]}
NoAnswer == [status |-> 0, data |-> ""]

NoBucket == [count |-> 0, resetTime |-> 0]

NoGwBody == [error |-> "", service |-> "", data |-> "", retryAfter |-> -1]

FreeSlot == [state |-> "free", ip |-> "", method |-> "", path |-> <<"", "">>,
             cred |-> <<"none", 0>>, route |-> "", counted |-> FALSE,
             overLimit |-> FALSE, service |-> "", url |-> <<"", "">>,
             calls |-> 0, responses |-> 0, outcome |-> "",
             answer |-> NoAnswer, res |-> 0, body |-> NoGwBody]

\* DECIMAL(10,2): PostgreSQL rounds a numeric input to two fraction digits,
\* half away from zero.  Input in mills, result in cents.
RoundCents(m) == IF m >= 0 THEN (m + 5) \div 10 ELSE -((-m + 5) \div 10)

\* authenticateToken with the result of jwt.verify ignored.
authenticateTokenSkipsVerify(cred) == IF cred[1] = "none" THEN 401 ELSE 0

(***************************************************************************)
(* authenticateToken of the Order Service: 0 stands for next().            *)
(***************************************************************************)
authenticateToken(cred) ==
  IF cred[1] = "none" THEN 401
  ELSE IF cred[1] = "bad" THEN 403
  ELSE 0

tokenUser(cred) == cred[2]

(***************************************************************************)
(* The store as one connection sees it: the committed rows, overridden by  *)
(* the rows its own open transaction wrote.                                *)
(***************************************************************************)
IdsOf(rows) == {r.id : r \in rows}

ViewOrders(c) ==
  conns[c].orders \cup {r \in orders : r.id \notin IdsOf(conns[c].orders)}

ViewItems(c) == conns[c].items \cup order_items

\* A committed row another connection's open transaction has written is
\* locked: an UPDATE of it waits until that transaction ends.
LockedByOther(c, id) ==
  /\ id \in IdsOf(orders)
  /\ \E d \in Conns \ {c} : id \in IdsOf(conns[d].orders)

IdleConns == Conns \ checkedOut

\* res.json() hands the response to the client at once: no handler step is
\* taken while a response is still in its slot.
Quiet == \A r \in Reqs : reqs[r].pc # "done"

\* Slots only name the invocations in flight: a new request takes the free
\* slot of lowest number.
Accepts(r) ==
  /\ Quiet
  /\ reqs[r].pc = "free"
  /\ \A x \in Reqs : x < r => reqs[x].pc # "free"

Init ==
  /\ catalog = [p \in Products |-> 500]
  /\ orders = {}
  /\ order_items = {}
  /\ orderSeq = 0
  /\ conns = [c \in Conns |-> FreshConn]
  /\ checkedOut = {}
  /\ reqs = [r \in Reqs |-> FreeReq]
  /\ nCalls = 0
  /\ failedCalls = {}
  /\ lastUpdate = [id \in OrderIds |-> ""]
  /\ rateLimit = [ip \in Clients |-> NoBucket]
  /\ now = 0
  /\ gw = [s \in Slots |-> FreeSlot]
  /\ lastAnswered = FreeSlot
  /\ nGw = 0
  /\ admitted = [ip \in Clients |-> [t \in Instants |-> 0]]

(***************************************************************************)
(* Product Service (src/unnamed/part_000).                                 *)
(***************************************************************************)
\* PUT /products/:id: the catalog price changes.
UpdateProduct(p, price) ==
  /\ Quiet
  /\ catalog[p] # price
  /\ catalog' = [catalog EXCEPT ![p] = price]
  /\ UNCHANGED <<gwVars, lastUpdate, orders, order_items, orderSeq, conns, checkedOut, reqs,
                 nCalls, failedCalls>>

\* GET /products/:id: the document, or no 2xx answer (404 for an id that
\* names no active document; any transport error when reachable is FALSE).
ProductFound(p, reachable) == reachable /\ p \in Products

GetProduct(p) == [name |-> productName(p), price |-> catalog[p]]

(***************************************************************************)
(* Order Service: POST /orders.                                            *)
(***************************************************************************)
\* The slot after res.status(code).json(body): the handler's locals are
\* dead and are not kept.
Answer(r, code, body) ==
  [FreeReq EXCEPT !.op = reqs[r].op, !.pc = "done", !.cred = reqs[r].cred,
     !.userId = reqs[r].userId, !.call = reqs[r].call, !.items = reqs[r].items,
     !.orderId = reqs[r].orderId,
     !.status = reqs[r].status, !.prev = reqs[r].prev,
     !.res = code, !.body = body]

ErrorBody(msg) == [NoBody EXCEPT !.error = msg]

AuthErrorBody(a) ==
  ErrorBody(IF a = 401 THEN "Access token required" ELSE "Invalid token")

\* What a request that authenticateToken turns away leaves in its slot.
Denied(op, cred) ==
  [FreeReq EXCEPT !.op = op, !.pc = "done", !.cred = cred,
                  !.res = authenticateToken(cred),
                  !.body = AuthErrorBody(authenticateToken(cred))]

\* The request arrives: authenticateToken, then the handler starts and
\* suspends at pool.connect().
PostOrders(r, cred, items, shippingAddress) ==
  /\ Accepts(r)
  /\ LET a == authenticateToken(cred) IN
       IF a # 0
       THEN /\ reqs' = [reqs EXCEPT ![r] = Denied("createOrder", cred)]
            /\ UNCHANGED nCalls
       ELSE /\ nCalls < MaxCalls
            /\ Cardinality({x \in Reqs : reqs[x].op = "createOrder"
                                          /\ reqs[x].pc # "done"}) < MaxCreating
            /\ nCalls' = nCalls + 1
            /\ reqs' = [reqs EXCEPT ![r] =
                 [FreeReq EXCEPT !.op = "createOrder", !.pc = "connect",
                    !.cred = cred, !.userId = tokenUser(cred),
                    !.call = nCalls + 1, !.items = items,
                    !.shippingAddress = shippingAddress]]
  /\ UNCHANGED <<gwVars, lastUpdate, catalog, orders, order_items, orderSeq, conns, checkedOut,
                 failedCalls>>

\* const client = await pool.connect(): any idle connection of the pool.
Connect(r) ==
  /\ Quiet
  /\ reqs[r].op = "createOrder" /\ reqs[r].pc = "connect"
  /\ \E c \in IdleConns :
       /\ checkedOut' = checkedOut \cup {c}
       /\ reqs' = [reqs EXCEPT ![r].client = c, ![r].pc = "begin"]
  /\ UNCHANGED <<gwVars, lastUpdate, catalog, orders, order_items, orderSeq, conns, nCalls,
                 failedCalls>>

\* await client.query('BEGIN'), then the check of the item list.  BEGIN on a
\* connection whose transaction is already open changes nothing.  The 400
\* returns through the finally block: client.release() and nothing else.
Begin(r) ==
  /\ Quiet
  /\ reqs[r].op = "createOrder" /\ reqs[r].pc = "begin"
  /\ LET c == reqs[r].client IN
       /\ conns' = [conns EXCEPT ![c].tx = TRUE]
       /\ IF Len(reqs[r].items) = 0
          THEN /\ reqs' = [reqs EXCEPT ![r] =
                    Answer(r, 400, ErrorBody("Order items are required"))]
               /\ checkedOut' = checkedOut \ {c}
          ELSE /\ reqs' = [reqs EXCEPT ![r].pc = "lookup", ![r].k = 1]
               /\ UNCHANGED checkedOut
  /\ UNCHANGED <<gwVars, lastUpdate, catalog, orders, order_items, orderSeq, nCalls, failedCalls>>

\* LookupFailed with the error swallowed: the loop goes on to the next item.
LookupFailedSkips(r) ==
  LET last == reqs[r].k = Len(reqs[r].items) IN
    /\ reqs' = [reqs EXCEPT ![r].k = IF last THEN 0 ELSE reqs[r].k + 1,
                            ![r].pc = IF last THEN "insertOrder" ELSE "lookup"]
    /\ UNCHANGED checkedOut
    /\ failedCalls' = failedCalls \cup {[call |-> reqs[r].call, k |-> reqs[r].k]}

\* LookupFailed with the answer naming the first item of the list.
LookupFailedNamesFirst(r) ==
  /\ reqs' = [reqs EXCEPT ![r] =
       Answer(r, 400, ErrorBody(reqs[r].items[1].productId))]
  /\ checkedOut' = checkedOut \ {reqs[r].client}
  /\ failedCalls' = failedCalls \cup {[call |-> reqs[r].call, k |-> reqs[r].k]}

\* The inner catch block: 400 "Invalid product: <id>" (the body keeps the
\* id), and out through finally, which releases the client.
LookupFailed(r) ==
  /\ reqs' = [reqs EXCEPT ![r] =
       Answer(r, 400, ErrorBody(reqs[r].items[reqs[r].k].productId))]
  /\ checkedOut' = checkedOut \ {reqs[r].client}
  /\ failedCalls' = failedCalls \cup {[call |-> reqs[r].call, k |-> reqs[r].k]}

\* One iteration of the validation loop: axios.get of item k.
Lookup(r, reachable) ==
  /\ Quiet
  /\ reqs[r].op = "createOrder" /\ reqs[r].pc = "lookup"
  /\ LET q == reqs[r]
         item == q.items[q.k]
         product == IF item.productId \in Products THEN GetProduct(item.productId)
                    ELSE [name |-> "", price |-> 0]
         itemTotal == product.price * item.quantity
         v == [productId |-> item.productId, productName |-> product.name,
               quantity |-> item.quantity, price |-> product.price]
         last == q.k = Len(q.items)
     IN IF ProductFound(item.productId, reachable)
        THEN /\ reqs' = [reqs EXCEPT ![r].totalAmount = q.totalAmount + itemTotal,
                            ![r].validatedItems = Append(q.validatedItems, v),
                            ![r].k = IF last THEN 0 ELSE q.k + 1,
                            ![r].pc = IF last THEN "insertOrder" ELSE "lookup"]
             /\ UNCHANGED <<checkedOut, failedCalls>>
        ELSE LookupFailed(r)
  /\ UNCHANGED <<gwVars, lastUpdate, catalog, orders, order_items, orderSeq, conns, nCalls>>

\* Rollback without its ROLLBACK statement: 500 and release only.
RollbackLeavesOpen(r) ==
  /\ UNCHANGED conns
  /\ reqs' = [reqs EXCEPT ![r] =
       [Answer(r, 500, ErrorBody("Internal server error")) EXCEPT !.prev = reqs[r].pc]]
  /\ checkedOut' = checkedOut \ {reqs[r].client}

\* The catch block of the handler: ROLLBACK, 500, then client.release().
\* The slot keeps, in prev, the step that threw.
Rollback(r) ==
  /\ conns' = [conns EXCEPT ![reqs[r].client] = FreshConn]
  /\ reqs' = [reqs EXCEPT ![r] =
       [Answer(r, 500, ErrorBody("Internal server error")) EXCEPT !.prev = reqs[r].pc]]
  /\ checkedOut' = checkedOut \ {reqs[r].client}

\* INSERT INTO orders ... RETURNING *: status takes the column default.
InsertOrder(r, ok) ==
  /\ Quiet
  /\ reqs[r].op = "createOrder" /\ reqs[r].pc = "insertOrder"
  /\ LET q == reqs[r]
         row == [id |-> orderSeq + 1, user_id |-> q.userId, status |-> "pending",
                 total_amount |-> RoundCents(q.totalAmount),
                 shipping_address |-> q.shippingAddress, call |-> q.call,
                 nItems |-> Len(q.validatedItems)]
         none == Len(q.validatedItems) = 0
     IN IF ok
        THEN /\ orderSeq' = orderSeq + 1
             /\ conns' = [conns EXCEPT ![q.client].orders = @ \cup {row}]
             /\ reqs' = [reqs EXCEPT ![r].orderId = row.id,
                                     ![r].shippingAddress = "",
                                     ![r].k = IF none THEN 0 ELSE 1,
                                     ![r].totalAmount = 0,
                                     ![r].pc = IF none THEN "commit" ELSE "insertItems"]
             /\ UNCHANGED checkedOut
        ELSE Rollback(r) /\ UNCHANGED orderSeq
  /\ UNCHANGED <<gwVars, lastUpdate, catalog, orders, order_items, nCalls, failedCalls>>

\* One iteration of the insert loop over validatedItems.
InsertItem(r, ok) ==
  /\ Quiet
  /\ reqs[r].op = "createOrder" /\ reqs[r].pc = "insertItems"
  /\ LET q == reqs[r]
         item == q.validatedItems[q.k]
         row == [order_id |-> q.orderId, seq |-> q.k, product_id |-> item.productId,
                 product_name |-> item.productName, quantity |-> item.quantity,
                 price |-> RoundCents(item.price), returned |-> item.price,
                 call |-> q.call]
         last == q.k = Len(q.validatedItems)
     IN IF ok
        THEN /\ conns' = [conns EXCEPT ![q.client].items = @ \cup {row}]
             /\ reqs' = [reqs EXCEPT
                           ![r].k = IF last THEN 0 ELSE q.k + 1,
                           ![r].validatedItems = IF last THEN <<>> ELSE q.validatedItems,
                           ![r].pc = IF last THEN "commit" ELSE "insertItems"]
             /\ UNCHANGED checkedOut
        ELSE Rollback(r)
  /\ UNCHANGED <<gwVars, lastUpdate, catalog, orders, order_items, orderSeq, nCalls, failedCalls>>

\* await client.query('COMMIT'): everything the transaction wrote becomes
\* the committed state.
Commit(r, ok) ==
  /\ Quiet
  /\ reqs[r].op = "createOrder" /\ reqs[r].pc = "commit"
  /\ LET c == reqs[r].client IN
       IF ok
       THEN /\ orders' = ViewOrders(c)
            /\ order_items' = ViewItems(c)
            /\ conns' = [conns EXCEPT ![c] = FreshConn]
            /\ reqs' = [reqs EXCEPT ![r].pc = "readBack"]
            /\ UNCHANGED checkedOut
       ELSE Rollback(r) /\ UNCHANGED <<orders, order_items>>
  /\ UNCHANGED <<gwVars, lastUpdate, catalog, orderSeq, nCalls, failedCalls>>

\* getOrderById with the owner conjunct left out of the query.
getOrderByIdAnyOwner(d, orderId, userId) ==
  LET found == {o \in ViewOrders(d) : o.id = orderId}
  IN [NoBody EXCEPT !.order = found,
        !.items = IF found = {} THEN {}
                  ELSE {i \in ViewItems(d) : i.order_id = orderId}]

\* getOrderById(orderId, userId): the two SELECTs run through pool.query on
\* an idle connection d and read what d sees.
getOrderById(d, orderId, userId) ==
  LET found == {o \in ViewOrders(d) :
                  o.id = orderId /\ (userId # 0 => o.user_id = userId)}
  IN [NoBody EXCEPT !.order = found,
        !.items = IF found = {} THEN {}
                  ELSE {i \in ViewItems(d) : i.order_id = orderId}]

\* const completeOrder = await getOrderById(order.id); res.status(201).
\* A failing read lands in the catch block: ROLLBACK (nothing is open), 500.
ReadBack(r, ok) ==
  /\ Quiet
  /\ reqs[r].op = "createOrder" /\ reqs[r].pc = "readBack"
  /\ IF ok
     THEN \E d \in IdleConns :
            /\ reqs' = [reqs EXCEPT ![r] =
                 Answer(r, 201, getOrderById(d, reqs[r].orderId, 0))]
            /\ checkedOut' = checkedOut \ {reqs[r].client}
            /\ UNCHANGED conns
     ELSE Rollback(r)
  /\ UNCHANGED <<gwVars, lastUpdate, catalog, orders, order_items, orderSeq, nCalls, failedCalls>>

(***************************************************************************)
(* Order Service: the status endpoints and the reads.  Each pool.query     *)
(* runs one statement on an idle connection c of the pool; when c carries  *)
(* an open transaction the statement runs inside it.                       *)
(***************************************************************************)
\* The row an UPDATE ... WHERE id = $2 AND user_id = $3 acts on, as c sees it.
OwnedRows(c, orderId, userId) ==
  {o \in ViewOrders(c) : o.id = orderId /\ o.user_id = userId}

\* History kept with a response: the status the statement found on the row
\* it was aimed at ("" when the caller owns no such row).
SeenStatus(c, orderId, userId) ==
  IF OwnedRows(c, orderId, userId) = {} THEN ""
  ELSE (CHOOSE o \in OwnedRows(c, orderId, userId) : TRUE).status

\* The cancel statement with one status too many in its list.
CancellableWide == {"pending", "confirmed", "delivered"}

\* ... AND status IN ($4, $5) of the cancel statement.
Cancellable == {"pending", "confirmed"}

\* WriteStatus with delivered and cancelled treated as final.
WriteStatusFinalStates(c, row, status) ==
  LET new == IF row.status \in {"delivered", "cancelled"} THEN row
             ELSE [row EXCEPT !.status = status] IN
    IF conns[c].tx
    THEN /\ conns' = [conns EXCEPT ![c].orders =
                        {o \in @ : o.id # row.id} \cup {new}]
         /\ UNCHANGED orders
    ELSE /\ orders' = {o \in orders : o.id # row.id} \cup {new}
         /\ UNCHANGED conns

\* WriteStatus with the UPDATE also resetting total_amount.
WriteStatusResetsTotal(c, row, status) ==
  LET new == [row EXCEPT !.status = status, !.total_amount = 0] IN
    IF conns[c].tx
    THEN /\ conns' = [conns EXCEPT ![c].orders =
                        {o \in @ : o.id # row.id} \cup {new}]
         /\ UNCHANGED orders
    ELSE /\ orders' = {o \in orders : o.id # row.id} \cup {new}
         /\ UNCHANGED conns

\* SET status = $1 on that row: in c's open transaction when it has one,
\* committed at once (autocommit) otherwise.
WriteStatus(c, row, status) ==
  LET new == [row EXCEPT !.status = status] IN
    IF conns[c].tx
    THEN /\ conns' = [conns EXCEPT ![c].orders =
                        {o \in @ : o.id # row.id} \cup {new}]
         /\ UNCHANGED orders
    ELSE /\ orders' = {o \in orders : o.id # row.id} \cup {new}
         /\ UNCHANGED conns

\* PATCH /orders/:id/status up to the end of its UPDATE statement.
UpdateStatus(r, cred, orderId, status) ==
  /\ Accepts(r)
  /\ LET a == authenticateToken(cred)
         userId == tokenUser(cred)
         q == [FreeReq EXCEPT !.op = "updateStatus", !.cred = cred,
                              !.userId = userId, !.orderId = orderId,
                              !.status = status]
     IN IF a # 0
        THEN reqs' = [reqs EXCEPT ![r] = Denied("updateStatus", cred)]
             /\ UNCHANGED <<orders, conns, lastUpdate>>
        ELSE IF status \notin validStatuses
        THEN reqs' = [reqs EXCEPT ![r] =
                        [q EXCEPT !.pc = "done", !.res = 400,
                                  !.body = ErrorBody("Invalid status")]]
             /\ UNCHANGED <<orders, conns, lastUpdate>>
        ELSE \E c \in IdleConns :
               LET rows == OwnedRows(c, orderId, userId) IN
                 IF rows = {}
                 THEN reqs' = [reqs EXCEPT ![r] =
                                 [q EXCEPT !.pc = "done", !.res = 404, !.client = c,
                                           !.body = ErrorBody("Order not found")]]
                      /\ UNCHANGED <<orders, conns, lastUpdate>>
                 ELSE \E row \in rows :
                        /\ ~LockedByOther(c, orderId)
                        /\ WriteStatus(c, row, status)
                        /\ lastUpdate' = [lastUpdate EXCEPT ![orderId] = status]
                        /\ reqs' = [reqs EXCEPT ![r] =
                                      [q EXCEPT !.pc = "reread", !.client = c]]
  /\ UNCHANGED <<gwVars, catalog, order_items, orderSeq, checkedOut, nCalls, failedCalls>>

\* const order = await getOrderById(orderId, userId); res.json(...).
Reread(r) ==
  /\ Quiet
  /\ reqs[r].op = "updateStatus" /\ reqs[r].pc = "reread"
  /\ \E d \in IdleConns :
       reqs' = [reqs EXCEPT ![r] =
                  Answer(r, 200, getOrderById(d, reqs[r].orderId, reqs[r].userId))]
  /\ UNCHANGED <<gwVars, lastUpdate, catalog, orders, order_items, orderSeq, conns, checkedOut,
                 nCalls, failedCalls>>

\* DELETE /orders/:id: one conditional UPDATE.
CancelOrder(r, cred, orderId) ==
  /\ Accepts(r)
  /\ LET a == authenticateToken(cred)
         userId == tokenUser(cred)
         q == [FreeReq EXCEPT !.op = "cancelOrder", !.pc = "done", !.cred = cred,
                              !.userId = userId, !.orderId = orderId]
     IN IF a # 0
        THEN reqs' = [reqs EXCEPT ![r] = Denied("cancelOrder", cred)]
             /\ UNCHANGED <<orders, conns, lastUpdate>>
        ELSE \E c \in IdleConns :
               LET rows == {o \in OwnedRows(c, orderId, userId) :
                              o.status \in Cancellable}
                   qc == [q EXCEPT !.client = c,
                                   !.prev = SeenStatus(c, orderId, userId)]
               IN IF rows = {}
                  THEN reqs' = [reqs EXCEPT ![r] =
                                  [qc EXCEPT !.res = 404,
                                     !.body = ErrorBody("Order not found or cannot be cancelled")]]
                       /\ UNCHANGED <<orders, conns, lastUpdate>>
                  ELSE \E row \in rows :
                         /\ ~LockedByOther(c, orderId)
                         /\ WriteStatus(c, row, "cancelled")
                         /\ lastUpdate' = [lastUpdate EXCEPT ![orderId] = "cancelled"]
                         /\ reqs' = [reqs EXCEPT ![r] = [qc EXCEPT !.res = 200]]
  /\ UNCHANGED <<gwVars, catalog, order_items, orderSeq, checkedOut, nCalls, failedCalls>>

\* GET /orders/:id.
GetOrder(r, cred, orderId) ==
  /\ Accepts(r)
  /\ LET a == authenticateToken(cred)
         userId == tokenUser(cred)
         q == [FreeReq EXCEPT !.op = "getOrder", !.pc = "done", !.cred = cred,
                              !.userId = userId, !.orderId = orderId]
     IN IF a # 0
        THEN reqs' = [reqs EXCEPT ![r] = Denied("getOrder", cred)]
        ELSE \E d \in IdleConns :
               LET order == getOrderById(d, orderId, userId) IN
                 reqs' = [reqs EXCEPT ![r] =
                   IF order.order = {}
                   THEN [q EXCEPT !.res = 404, !.client = d,
                                  !.body = ErrorBody("Order not found")]
                   ELSE [q EXCEPT !.res = 200, !.client = d, !.body = order]]
  /\ UNCHANGED <<gwVars, lastUpdate, catalog, orders, order_items, orderSeq, conns, checkedOut,
                 nCalls, failedCalls>>

\* GET /orders?status: the caller's orders, each with its items.  An empty
\* filter string is no filter.
ListOrders(r, cred, filter) ==
  /\ Accepts(r)
  /\ LET a == authenticateToken(cred)
         userId == tokenUser(cred)
         q == [FreeReq EXCEPT !.op = "listOrders", !.pc = "done", !.cred = cred,
                              !.userId = userId, !.status = filter]
     IN IF a # 0
        THEN reqs' = [reqs EXCEPT ![r] = Denied("listOrders", cred)]
        ELSE \E d \in IdleConns :
               LET rows == {o \in ViewOrders(d) :
                              o.user_id = userId /\ (filter # "" => o.status = filter)}
               IN reqs' = [reqs EXCEPT ![r] =
                    [q EXCEPT !.res = 200,
                       !.body = [NoBody EXCEPT !.orders = rows,
                                   !.items = {i \in ViewItems(d) :
                                                i.order_id \in IdsOf(rows)}]]]
  /\ UNCHANGED <<gwVars, lastUpdate, catalog, orders, order_items, orderSeq, conns, checkedOut,
                 nCalls, failedCalls>>

\* The response has been sent; the slot takes the next request.
Reply(r) ==
  /\ reqs[r].pc = "done"
  /\ reqs' = [reqs EXCEPT ![r] = FreeReq]
  /\ UNCHANGED <<gwVars, lastUpdate, catalog, orders, order_items, orderSeq, conns, checkedOut,
                 nCalls, failedCalls>>

\* The pool closes a client that sat idle for idleTimeoutMillis; the server
\* rolls back whatever transaction the connection had open.
IdleTimeout(c) ==
  /\ Quiet
  /\ c \in IdleConns
  /\ conns[c].tx
  /\ conns' = [conns EXCEPT ![c] = FreshConn]
  /\ UNCHANGED <<gwVars, lastUpdate, catalog, orders, order_items, orderSeq, checkedOut, reqs,
                 nCalls, failedCalls>>

Next ==
  \/ \E p \in Products, price \in Prices : UpdateProduct(p, price)
  \/ \E r \in Reqs, cred \in Creds, items \in ItemLists, addr \in ShippingAddresses :
        PostOrders(r, cred, items, addr)
  \/ \E r \in Reqs : Connect(r)
  \/ \E r \in Reqs : Begin(r)
  \/ \E r \in Reqs, reachable \in BOOLEAN : Lookup(r, reachable)
  \/ \E r \in Reqs, ok \in BOOLEAN : InsertOrder(r, ok)
  \/ \E r \in Reqs, ok \in BOOLEAN : InsertItem(r, ok)
  \/ \E r \in Reqs, ok \in BOOLEAN : Commit(r, ok)
  \/ \E r \in Reqs, ok \in BOOLEAN : ReadBack(r, ok)
  \/ \E r \in Reqs : Reply(r)
  \/ \E c \in Conns : IdleTimeout(c)

Spec == Init /\ [][Next]_vars

\* The same service with every endpoint in play.  The catalog price stays
\* fixed and an order has at most one item, which keeps the store small.
StatusLists == {<<>>, <<[productId |-> "p1", quantity |-> 1]>>}
\* The statuses a caller sends: "refunded" is outside the enumeration;
\* "processing" and "shipped" are left out, no statement of the service
\* treating them differently from "delivered".
StatusInputs == {"pending", "confirmed", "delivered", "cancelled", "refunded"}
Filters == {"", "pending"}
TargetIds == 1..MaxCalls

NextStatus ==
  \/ \E r \in Reqs, cred \in Creds, items \in StatusLists, addr \in ShippingAddresses :
        PostOrders(r, cred, items, addr)
  \/ \E r \in Reqs : Connect(r)
  \/ \E r \in Reqs : Begin(r)
  \/ \E r \in Reqs, reachable \in BOOLEAN : Lookup(r, reachable)
  \/ \E r \in Reqs, ok \in BOOLEAN : InsertOrder(r, ok)
  \/ \E r \in Reqs, ok \in BOOLEAN : InsertItem(r, ok)
  \/ \E r \in Reqs, ok \in BOOLEAN : Commit(r, ok)
  \/ \E r \in Reqs, ok \in BOOLEAN : ReadBack(r, ok)
  \/ \E r \in Reqs, cred \in Creds, id \in TargetIds, status \in StatusInputs :
        UpdateStatus(r, cred, id, status)
  \/ \E r \in Reqs : Reread(r)
  \/ \E r \in Reqs, cred \in Creds, id \in TargetIds : CancelOrder(r, cred, id)
  \/ \E r \in Reqs, cred \in Creds, id \in TargetIds : GetOrder(r, cred, id)
  \/ \E r \in Reqs, cred \in Creds, filter \in Filters : ListOrders(r, cred, filter)
  \/ \E r \in Reqs : Reply(r)
  \/ \E c \in Conns : IdleTimeout(c)

SpecStatus == Init /\ [][NextStatus]_vars

\* POST /orders under item lists whose quantities are whatever a caller
\* sends: the handler takes item.quantity as it comes, zero and negative
\* numbers included.
AnyQuantities == -1..MaxQuantity
QuantityLists == {<<[productId |-> p, quantity |-> n]>> : p \in Products, n \in AnyQuantities}
                   \cup {<<[productId |-> p, quantity |-> 1], [productId |-> p, quantity |-> n]>> :
                           p \in Products, n \in AnyQuantities}

NextQuantity ==
  \/ \E r \in Reqs, cred \in Creds, items \in QuantityLists, addr \in ShippingAddresses :
        PostOrders(r, cred, items, addr)
  \/ \E r \in Reqs : Connect(r)
  \/ \E r \in Reqs : Begin(r)
  \/ \E r \in Reqs, reachable \in BOOLEAN : Lookup(r, reachable)
  \/ \E r \in Reqs, ok \in BOOLEAN : InsertOrder(r, ok)
  \/ \E r \in Reqs, ok \in BOOLEAN : InsertItem(r, ok)
  \/ \E r \in Reqs, ok \in BOOLEAN : Commit(r, ok)
  \/ \E r \in Reqs, ok \in BOOLEAN : ReadBack(r, ok)
  \/ \E r \in Reqs : Reply(r)
  \/ \E c \in Conns : IdleTimeout(c)

SpecQuantity == Init /\ [][NextQuantity]_vars

\* The order endpoints under every caller id a verified token can carry.
\* jwt.verify checks the signature and the expiry only and hands the payload
\* to the handlers as req.user; a payload whose userId is 0 (or is missing,
\* which the handlers' "if (userId)" treats alike) verifies like any other.
IdentityCreds == Creds \cup {<<"token", 0>>}
IdentityStatuses == {"confirmed"}

NextIdentity ==
  \/ \E r \in Reqs, cred \in IdentityCreds, items \in StatusLists, addr \in ShippingAddresses :
        PostOrders(r, cred, items, addr)
  \/ \E r \in Reqs : Connect(r)
  \/ \E r \in Reqs : Begin(r)
  \/ \E r \in Reqs, reachable \in BOOLEAN : Lookup(r, reachable)
  \/ \E r \in Reqs, ok \in BOOLEAN : InsertOrder(r, ok)
  \/ \E r \in Reqs, ok \in BOOLEAN : InsertItem(r, ok)
  \/ \E r \in Reqs, ok \in BOOLEAN : Commit(r, ok)
  \/ \E r \in Reqs, ok \in BOOLEAN : ReadBack(r, ok)
  \/ \E r \in Reqs, cred \in IdentityCreds, id \in TargetIds, status \in IdentityStatuses :
        UpdateStatus(r, cred, id, status)
  \/ \E r \in Reqs : Reread(r)
  \/ \E r \in Reqs, cred \in IdentityCreds, id \in TargetIds : GetOrder(r, cred, id)
  \/ \E r \in Reqs : Reply(r)
  \/ \E c \in Conns : IdleTimeout(c)

SpecIdentity == Init /\ [][NextIdentity]_vars

(***************************************************************************)
(* API Gateway (src/services/Order service/server.js, lines 327-497).      *)
(* Express runs the handlers in the order of their registration: the two   *)
(* GET routes, the four proxied routes, then the rate limiting middleware, *)
(* then the 404 handler.  A route handler that answers, or hands the       *)
(* request to proxyRequest, never calls next().                            *)
(***************************************************************************)

\* The first registered route that matches the request, "none" if no route
\* does.
Route(method, path) ==
  IF path[1] = "/health" /\ method = "GET" THEN "health"
  ELSE IF path[1] = "/metrics" /\ method = "GET" THEN "metrics"
  ELSE IF path[1] = "/api/users" THEN "users"
  ELSE IF path[1] = "/api/auth" THEN "auth"
  ELSE IF path[1] = "/api/products" THEN "products"
  ELSE IF path[1] = "/api/orders" THEN "orders"
  ELSE "none"

\* serviceUrl and path a proxied route hands to proxyRequest.
Target(route, path) ==
  IF route = "users" THEN [service |-> SERVICES.user, url |-> <<"/users", path[2]>>]
  ELSE IF route = "auth" THEN [service |-> SERVICES.user, url |-> <<"/auth", path[2]>>]
  ELSE IF route = "products" THEN [service |-> SERVICES.product, url |-> <<"/products", path[2]>>]
  ELSE [service |-> SERVICES.order, url |-> <<"/orders", path[2]>>]

\* authenticateToken with the result of jwt.verify ignored.
gatewayIgnoresVerify(cred) == IF cred[1] = "none" THEN 401 ELSE 0

\* authenticateToken of the gateway: 401 without a token, 403 if jwt.verify
\* fails, 0 for next().
gatewayAuthenticateToken(cred) ==
  IF cred[1] = "none" THEN 401
  ELSE IF cred[1] = "bad" THEN 403
  ELSE 0

\* Math.ceil(x / 1000).
CeilSeconds(x) == -((-x) \div 1000)

\* rateLimiter with every refused request starting the 60 s over again.
rateLimiterExtendsOnDenial(ip) ==
  IF rateLimit[ip] = NoBucket
    THEN [count |-> 1, resetTime |-> now + RATE_LIMIT_WINDOW]
  ELSE IF now > rateLimit[ip].resetTime
    THEN [count |-> 1, resetTime |-> now + RATE_LIMIT_WINDOW]
  ELSE IF rateLimit[ip].count >= RATE_LIMIT_MAX_REQUESTS
    THEN [count |-> rateLimit[ip].count + 1, resetTime |-> now + RATE_LIMIT_WINDOW]
  ELSE [rateLimit[ip] EXCEPT !.count = @ + 1]

\* rateLimiter with the window ending at resetTime instead of after it.
rateLimiterResetsAtBoundary(ip) ==
  IF rateLimit[ip] = NoBucket
    THEN [count |-> 1, resetTime |-> now + RATE_LIMIT_WINDOW]
  ELSE IF now >= rateLimit[ip].resetTime
    THEN [count |-> 1, resetTime |-> now + RATE_LIMIT_WINDOW]
  ELSE [rateLimit[ip] EXCEPT !.count = @ + 1]

\* The bucket of the client after the first half of the rate limiting
\* middleware.
rateLimiter(ip) ==
  IF rateLimit[ip] = NoBucket
    THEN [count |-> 1, resetTime |-> now + RATE_LIMIT_WINDOW]
  ELSE IF now > rateLimit[ip].resetTime
    THEN [count |-> 1, resetTime |-> now + RATE_LIMIT_WINDOW]
  ELSE [rateLimit[ip] EXCEPT !.count = @ + 1]

\* Whether the bucket of the client holds it over the limit at this instant.
OverLimit(ip) ==
  /\ rateLimit[ip].count > RATE_LIMIT_MAX_REQUESTS
  /\ now <= rateLimit[ip].resetTime

\* proxyRequest with every backend error answered as an outage.
proxyResponseMasks(serviceUrl, outcome, answer) ==
  IF outcome = "answered" /\ answer.status \in 200..299
    THEN [status |-> answer.status, body |-> [NoGwBody EXCEPT !.data = answer.data]]
    ELSE [status |-> 503,
          body |-> [NoGwBody EXCEPT !.error = "Service unavailable",
                                    !.service = serviceUrl]]

\* What proxyRequest answers once axios settles: the backend's status and
\* body if it resolved (2xx) or rejected with error.response (any other
\* status), 503 if it rejected without a response.
proxyResponse(serviceUrl, outcome, answer) ==
  IF outcome = "answered" /\ answer.status \in 200..299
    THEN [status |-> answer.status, body |-> [NoGwBody EXCEPT !.data = answer.data]]
  ELSE IF outcome = "answered"
    THEN [status |-> answer.status, body |-> [NoGwBody EXCEPT !.data = answer.data]]
  ELSE [status |-> 503,
        body |-> [NoGwBody EXCEPT !.error = "Service unavailable",
                                  !.service = serviceUrl]]

\* A request arrives and runs up to its response or up to the await of
\* proxyRequest.
Receive(s, ip, method, path, cred) ==
  /\ gw[s].state = "free"
  /\ \A x \in Slots : x < s => gw[x].state = "proxying"
  /\ LET route == Route(method, path)
         q == [FreeSlot EXCEPT !.ip = ip, !.method = method, !.path = path,
                               !.cred = cred, !.route = route,
                               !.overLimit = OverLimit(ip)]
         a == gatewayAuthenticateToken(cred)
         b == rateLimiter(ip)
     IN IF route \in {"health", "metrics"}
          THEN /\ lastAnswered' = [q EXCEPT !.state = "answered", !.responses = 1,
                                     !.res = 200, !.body.data = route]
               /\ UNCHANGED <<gw, rateLimit, admitted>>
        ELSE IF route = "none"
          THEN /\ rateLimit' = [rateLimit EXCEPT ![ip] = b]
               /\ IF b.count > RATE_LIMIT_MAX_REQUESTS
                    THEN /\ lastAnswered' =
                              [q EXCEPT !.state = "answered", !.counted = TRUE,
                                        !.responses = 1, !.res = 429,
                                        !.body.error = "Too many requests",
                                        !.body.retryAfter = CeilSeconds(b.resetTime - now)]
                         /\ UNCHANGED <<gw, admitted>>
                    ELSE /\ lastAnswered' =
                              [q EXCEPT !.state = "answered", !.counted = TRUE,
                                        !.responses = 1, !.res = 404,
                                        !.body.error = "Route not found"]
                         /\ admitted' = [admitted EXCEPT ![ip][now] = @ + 1]
                         /\ UNCHANGED gw
        ELSE IF route = "orders" /\ a # 0
          THEN /\ lastAnswered' =
                    [q EXCEPT !.state = "answered", !.responses = 1, !.res = a,
                              !.body.error = IF a = 401 THEN "Access token required"
                                             ELSE "Invalid token"]
               /\ UNCHANGED <<gw, rateLimit, admitted>>
        ELSE /\ gw' = [gw EXCEPT ![s] =
                  [q EXCEPT !.state = "proxying", !.calls = 1,
                            !.service = Target(route, path).service,
                            !.url = Target(route, path).url]]
             /\ UNCHANGED <<lastAnswered, rateLimit, admitted>>
  /\ nGw' = nGw + 1
  /\ UNCHANGED <<now, orderVars>>

\* The axios call of a proxied request settles and proxyRequest answers.
Respond(s, outcome, answer) ==
  /\ gw[s].state = "proxying"
  /\ outcome = "unreachable" <=> answer = NoAnswer
  /\ LET out == proxyResponse(gw[s].service, outcome, answer)
     IN /\ lastAnswered' = [gw[s] EXCEPT !.state = "answered", !.outcome = outcome,
                                  !.answer = answer, !.responses = @ + 1,
                                  !.res = out.status, !.body = out.body]
        /\ gw' = [gw EXCEPT ![s] = FreeSlot]
  /\ UNCHANGED <<rateLimit, now, nGw, admitted, orderVars>>

\* Time passes.
Tick(t) ==
  /\ t > now
  /\ now' = t
  /\ UNCHANGED <<rateLimit, gw, lastAnswered, nGw, admitted, orderVars>>

NextGateway ==
  \/ \E s \in Slots, ip \in Clients, q \in Requests, cred \in GwCreds :
       nGw < MaxGwRequests /\ Receive(s, ip, q[1], q[2], cred)
  \/ \E s \in Slots, answer \in BackendAnswers : Respond(s, "answered", answer)
  \/ \E s \in Slots : Respond(s, "unreachable", NoAnswer)
  \/ \E t \in Instants : Tick(t)

SpecGateway == Init /\ [][NextGateway]_vars

\* The gateway under requests on a path no route matches, which are the
\* requests the rate limiting middleware sees: a burst of one client, and
\* the first request of another.
NextLimiter ==
  \/ nGw < MaxBurst /\ Receive(1, "ip1", "GET", <<"/nowhere", "">>, <<"none", 0>>)
  \/ /\ nGw < MaxBurst /\ rateLimit["ip2"] = NoBucket
     /\ Receive(1, "ip2", "GET", <<"/nowhere", "">>, <<"none", 0>>)
  \/ \E t \in Instants : Tick(t)

SpecLimiter == Init /\ [][NextLimiter]_vars

(***************************************************************************)
(* Properties.                                                             *)
(***************************************************************************)
RECURSIVE SumRows(_)
SumRows(rows) ==
  IF rows = {} THEN 0
  ELSE LET i == CHOOSE x \in rows : TRUE
       IN i.price * i.quantity + SumRows(rows \ {i})

ItemsOf(rows, id) == {i \in rows : i.order_id = id}

\* Every version of every order row: committed, or written by a transaction
\* still open.
AllOrderRows == orders \cup UNION {conns[c].orders : c \in Conns}
AllItemRows == order_items \cup UNION {conns[c].items : c \in Conns}

\* C1: every persisted order's total_amount equals the sum over its own
\* persisted item rows of price * quantity.
C1_TotalIsSumOfItems ==
  \A o \in orders : o.total_amount = SumRows(ItemsOf(order_items, o.id))

\* C2: a createOrder call in which a product lookup failed has no order row
\* and no order_items row in the store, committed or not, in any later state.
C2_FailedCallLeavesNoRows ==
  \A f \in failedCalls :
    /\ \A o \in AllOrderRows : o.call # f.call
    /\ \A i \in AllItemRows : i.call # f.call

\* C2 witness: a call failed at its second item, after the first validated,
\* while an order of another call is in the store.
C2_Witness ==
  /\ \E f \in failedCalls : f.k = 2
  /\ orders # {}

\* C9: no connection sitting in the pool carries an open transaction.
C9_PooledConnectionsHaveNoOpenTransaction ==
  \A c \in IdleConns : ~conns[c].tx

\* C10: no partial order is visible: whatever a statement run through the pool
\* can read, each order row comes with exactly one item row per validated item
\* of its call; and a call whose order insert or item insert failed is answered
\* 500 with the generic message and leaves no row of its own anywhere.
C10_NoPartialOrder ==
  /\ \A d \in IdleConns : \A o \in ViewOrders(d) :
       {i.seq : i \in ItemsOf(ViewItems(d), o.id)} = 1..o.nItems
  /\ \A o \in orders :
       /\ {i.seq : i \in ItemsOf(order_items, o.id)} = 1..o.nItems
       /\ Cardinality(ItemsOf(order_items, o.id)) = o.nItems
  /\ \A r \in Reqs :
       (/\ reqs[r].pc = "done"
        /\ reqs[r].op = "createOrder"
        /\ reqs[r].prev \in {"insertOrder", "insertItems"})
       => /\ reqs[r].res = 500
          /\ reqs[r].body = ErrorBody("Internal server error")
          /\ \A o \in AllOrderRows : o.call # reqs[r].call
          /\ \A i \in AllItemRows : i.call # reqs[r].call

\* C10 witness: an item insert failed and the call was answered 500 while a
\* complete two-item order of an earlier call is committed.
C10_Witness ==
  /\ \E r \in Reqs : reqs[r].pc = "done" /\ reqs[r].prev = "insertItems"
                     /\ reqs[r].res = 500
  /\ \E o \in orders : o.nItems = 2

(* Properties of the status endpoints, under SpecStatus. *)

Authenticated(r) == reqs[r].pc = "done" /\ reqs[r].res \notin {401, 403}

\* The owner of the order an item row belongs to.
OwnersOf(id) == {o.user_id : o \in {x \in AllOrderRows : x.id = id}}

NotFoundBody(op) ==
  IF op = "cancelOrder" THEN ErrorBody("Order not found or cannot be cancelled")
  ELSE ErrorBody("Order not found")

\* C3, the reads: whatever a response carries belongs to the caller; a get,
\* update or cancel aimed at an order that is not the caller's is answered
\* exactly as one aimed at an id no order has.
C3_ResponsesStayWithOwner ==
  \A r \in Reqs :
    /\ \A o \in reqs[r].body.order \cup reqs[r].body.orders :
         o.user_id = reqs[r].userId
    /\ \A i \in reqs[r].body.items : OwnersOf(i.order_id) = {reqs[r].userId}
    /\ (/\ Authenticated(r)
        /\ reqs[r].op \in {"getOrder", "updateStatus", "cancelOrder"}
        /\ reqs[r].res # 400
        /\ reqs[r].userId \notin OwnersOf(reqs[r].orderId))
       => /\ reqs[r].res = 404
          /\ reqs[r].body = NotFoundBody(reqs[r].op)

\* C3, the writes: a step of a status endpoint or a read issued by caller u
\* changes no version of any order row that u does not own.
C3_StepLeavesOthersAlone ==
  \A r \in Reqs :
    (/\ reqs'[r] # reqs[r]
     /\ reqs'[r].op \in {"getOrder", "listOrders", "updateStatus", "cancelOrder"})
    => /\ {o \in orders' : o.user_id # reqs'[r].userId}
            = {o \in orders : o.user_id # reqs'[r].userId}
       /\ \A c \in Conns :
            {o \in conns'[c].orders : o.user_id # reqs'[r].userId}
              = {o \in conns[c].orders : o.user_id # reqs'[r].userId}

\* C3: ownership isolation.
C3_OwnershipIsolation ==
  []C3_ResponsesStayWithOwner /\ [][C3_StepLeavesOthersAlone]_vars

\* C3 witness: a caller asked for another caller's committed order and was
\* answered 404.
C3_Witness ==
  \E r \in Reqs :
    /\ Authenticated(r) /\ reqs[r].op = "getOrder" /\ reqs[r].res = 404
    /\ \E o \in orders : o.id = reqs[r].orderId /\ o.user_id # reqs[r].userId

\* The row the statement of a finished cancel ran on, as its connection sees
\* it now.
RowAfter(r) ==
  {o \in ViewOrders(reqs[r].client) :
     o.id = reqs[r].orderId /\ o.user_id = reqs[r].userId}

\* C4: a cancel by the owner succeeds exactly when the row's status at the
\* statement was pending or confirmed, and then the row is cancelled; in every
\* other status the answer is 404 and the status is what it was.
C4_CancelOnlyFromPendingOrConfirmed ==
  \A r \in Reqs :
    (Authenticated(r) /\ reqs[r].op = "cancelOrder" /\ reqs[r].prev # "")
    => /\ reqs[r].res = 200 <=> reqs[r].prev \in {"pending", "confirmed"}
       /\ reqs[r].res = 200 => \A o \in RowAfter(r) : o.status = "cancelled"
       /\ reqs[r].res # 200 =>
            /\ reqs[r].res = 404
            /\ \A o \in RowAfter(r) : o.status = reqs[r].prev
       /\ RowAfter(r) # {}

\* C4 witness: the owner's cancel of a delivered order was refused while an
\* updateStatus call of the same owner is still in flight.
C4_Witness ==
  \E r, x \in Reqs :
    /\ Authenticated(r) /\ reqs[r].op = "cancelOrder"
    /\ reqs[r].prev = "delivered" /\ reqs[r].res = 404
    /\ reqs[x].op = "updateStatus" /\ reqs[x].pc = "reread"
    /\ reqs[x].orderId = reqs[r].orderId

(* Properties of the API Gateway, under SpecGateway and SpecLimiter. *)

RECURSIVE SumAdmitted(_, _)
SumAdmitted(ip, ts) ==
  IF ts = {} THEN 0
  ELSE LET t == CHOOSE x \in ts : TRUE
       IN admitted[ip][t] + SumAdmitted(ip, ts \ {t})

\* Requests of the client the limiter let pass in the interval of one window
\* length that starts at instant from.
AdmittedInWindowFrom(ip, from) ==
  SumAdmitted(ip, {t \in Instants : from <= t /\ t < from + RATE_LIMIT_WINDOW})

\* C5: in any interval of 60 seconds the limiter admits at most 100 requests
\* of one client; a denial carries a retryAfter of at most 60.
C5_AtMost100InAnyRollingWindow ==
  /\ \A ip \in Clients, from \in Instants :
       AdmittedInWindowFrom(ip, from) <= RATE_LIMIT_MAX_REQUESTS
  /\ lastAnswered.res = 429 => lastAnswered.body.retryAfter <= 60

\* The requests the gateway holds or has just answered.
Seen == {q \in {gw[s] : s \in Slots} \cup {lastAnswered} : q.state # "free"}

\* C6: every request handed to a backend went through the rate limiter
\* first, and none was handed over for a client that was over its limit.
C6_LimiterGatesForwarding ==
  \A q \in Seen : q.calls > 0 => q.counted /\ ~q.overLimit

\* C7: a request on /api/orders reaches the order backend only with a
\* credential that verifies; without a credential it is answered 401, with
\* one that fails verification 403, both without a backend call; requests on
\* the users, auth and products prefixes are dispatched whatever they carry.
C7_OrdersRequireAuth ==
  \A q \in Seen :
    /\ (q.calls > 0 /\ q.service = SERVICES.order) => q.cred[1] = "token"
    /\ (q.path[1] = "/api/orders" /\ q.cred[1] = "none")
         => q.state = "answered" /\ q.res = 401 /\ q.calls = 0
    /\ (q.path[1] = "/api/orders" /\ q.cred[1] = "bad")
         => q.state = "answered" /\ q.res = 403 /\ q.calls = 0
    /\ q.path[1] \in {"/api/users", "/api/auth", "/api/products"}
         => q.calls = 1 /\ q.service # SERVICES.order

\* C7 witness: an orders request with a bad token was answered 403 while a
\* products request without any credential is at its backend.
C7_Witness ==
  /\ lastAnswered.path[1] = "/api/orders" /\ lastAnswered.cred[1] = "bad"
  /\ lastAnswered.res = 403
  /\ \E s \in Slots : /\ gw[s].state = "proxying"
                      /\ gw[s].path[1] = "/api/products"
                      /\ gw[s].cred[1] = "none"

C11_StatusesInEnumeration ==
  /\ \A o \in AllOrderRows :
       o.status \in {"pending", "confirmed", "processing", "shipped",
                     "delivered", "cancelled"}
  /\ \A r \in Reqs :
       (/\ Authenticated(r)
        /\ reqs[r].op = "updateStatus"
        /\ reqs[r].status \notin {"pending", "confirmed", "processing", "shipped",
                                  "delivered", "cancelled"})
       => /\ reqs[r].res = 400
          /\ reqs[r].body = ErrorBody("Invalid status")

\* C11, the steps: the step that answers an updateStatus call 400 changes no
\* row, no transaction and no connection.
C11_RejectionChangesNothing ==
  \A r \in Reqs :
    (reqs'[r] # reqs[r] /\ reqs'[r].op = "updateStatus" /\ reqs'[r].res = 400)
    => UNCHANGED <<orders, order_items, conns, orderSeq, checkedOut>>

\* C11: the status of an order is always one of the six of the enumeration.
C11_StatusEnumeration ==
  []C11_StatusesInEnumeration /\ [][C11_RejectionChangesNothing]_vars

\* C11 witness: the owner of a committed order asked for the status
\* "refunded" on it and was answered 400.
C11_Witness ==
  \E r \in Reqs :
    /\ reqs[r].pc = "done" /\ reqs[r].op = "updateStatus"
    /\ reqs[r].status = "refunded" /\ reqs[r].res = 400
    /\ \E o \in orders : o.id = reqs[r].orderId /\ o.user_id = reqs[r].userId

\* The statuses connection c sees on the caller's row with that id, in the
\* store made of the transactions cs and the committed rows os.
StatusesIn(cs, os, c, orderId, userId) ==
  {o.status : o \in {x \in cs[c].orders \cup
                              {y \in os : y.id \notin IdsOf(cs[c].orders)} :
                         x.id = orderId /\ x.user_id = userId}}

\* C12, the UPDATE: when the statement of an updateStatus call with a status
\* of the enumeration runs on connection c, it finds the caller's row or
\* answers 404; a row it finds takes the new status whatever status it had.
C12_UpdateTakesAnyTransition ==
  \A r \in Reqs :
    (/\ reqs[r].pc = "free"
     /\ reqs'[r].op = "updateStatus"
     /\ reqs'[r].client # 0)
    => LET q == reqs'[r]
           c == q.client
       IN IF OwnedRows(c, q.orderId, q.userId) = {}
          THEN q.pc = "done" /\ q.res = 404
          ELSE /\ q.pc = "reread"
               /\ StatusesIn(conns', orders', c, q.orderId, q.userId) = {q.status}

\* C12, the answer: a call whose UPDATE found the row is answered 200.
C12_UpdatedIsAnswered200 ==
  \A r \in Reqs :
    (reqs[r].pc = "reread" /\ reqs'[r] # reqs[r])
    => reqs'[r].pc = "done" /\ reqs'[r].res = 200

\* C12: updateStatus checks no adjacency of the old and the new status.
C12_NoTransitionAdjacency ==
  [][C12_UpdateTakesAnyTransition /\ C12_UpdatedIsAnswered200]_vars

\* C12 witness: one updateStatus call set an order to delivered and, before
\* it was answered, another moved the same order from delivered to pending.
C12_Witness ==
  \E r, x \in Reqs :
    /\ reqs[x].op = "updateStatus" /\ reqs[x].pc = "reread"
    /\ reqs[x].status = "delivered"
    /\ reqs[r].op = "updateStatus" /\ reqs[r].pc = "reread"
    /\ reqs[r].status = "pending"
    /\ reqs[r].orderId = reqs[x].orderId
    /\ lastUpdate[reqs[r].orderId] = "pending"
    /\ \A c \in Conns : ~conns[c].tx
    /\ \E o \in orders : o.id = reqs[r].orderId /\ o.status = "pending"

\* C13: a createOrder call over n >= 1 items that is answered 201 added one
\* order, the caller's, pending, with n item rows, the k-th carrying the
\* product id and quantity of the k-th input item and the name and price the
\* Product Service returned for it; the response carries that order and
\* those rows.
C13_CreatedOrderMatchesInput ==
  \A r \in Reqs :
    (/\ reqs[r].pc = "done" /\ reqs[r].op = "createOrder"
     /\ reqs[r].res = 201 /\ Len(reqs[r].items) >= 1)
    => LET q == reqs[r]
           mine == {o \in orders : o.call = q.call}
           rows == ItemsOf(order_items, q.orderId)
       IN /\ Cardinality(mine) = 1
          /\ \A o \in mine : /\ o.id = q.orderId
                             /\ o.user_id = q.userId
                             /\ o.status = "pending"
          /\ Cardinality(rows) = Len(q.items)
          /\ {i.seq : i \in rows} = 1..Len(q.items)
          /\ \A i \in rows :
               /\ i.product_id = q.items[i.seq].productId
               /\ i.quantity = q.items[i.seq].quantity
               /\ i.product_name = productName(i.product_id)
               /\ i.price * 10 = i.returned
          /\ q.body.order = mine
          /\ q.body.items = rows

\* C14, the states: a request of the Order Service without a credential is
\* answered 401 and one whose credential fails verification 403; neither
\* holds a pool connection, names a createOrder call or carries any row.
C14_UnverifiedIsTurnedAway ==
  \A r \in Reqs :
    (reqs[r].op # "none" /\ reqs[r].cred[1] # "token")
    => /\ reqs[r].pc = "done"
       /\ reqs[r].cred[1] = "none" =>
            reqs[r].res = 401 /\ reqs[r].body = ErrorBody("Access token required")
       /\ reqs[r].cred[1] = "bad" =>
            reqs[r].res = 403 /\ reqs[r].body = ErrorBody("Invalid token")
       /\ reqs[r].client = 0 /\ reqs[r].call = 0

\* C14, the steps: the step that takes such a request changes nothing of the
\* store, the pool or the calls made to the Product Service.
C14_UnverifiedTouchesNothing ==
  \A r \in Reqs :
    (reqs'[r] # reqs[r] /\ reqs'[r].op # "none" /\ reqs'[r].cred[1] # "token")
    => UNCHANGED <<orders, order_items, orderSeq, conns, checkedOut, nCalls,
                   failedCalls, lastUpdate>>

\* C14: the Order Service does nothing for a request whose bearer credential
\* was not verified.
C14_NothingWithoutCredential ==
  []C14_UnverifiedIsTurnedAway /\ [][C14_UnverifiedTouchesNothing]_vars

\* C14 witness: a cancel of a pending committed order sent with a token that
\* fails verification was answered 403.
C14_Witness ==
  \E r \in Reqs :
    /\ reqs[r].op = "cancelOrder" /\ reqs[r].cred[1] = "bad"
    /\ reqs[r].res = 403
    /\ \E o \in orders : o.status = "pending"

\* C15, the step: every committed order is still there after any step, with
\* the same id, owner, total_amount and shipping_address (at most its status
\* differs), and with exactly the item rows it had; the id sequence never
\* goes back and no committed order has an id beyond it.
C15_StepKeepsOrders ==
  /\ \A o \in orders :
       /\ \E o2 \in orders' : [o2 EXCEPT !.status = o.status] = o
       /\ Cardinality({o2 \in orders' : o2.id = o.id}) = 1
       /\ ItemsOf(order_items', o.id) = ItemsOf(order_items, o.id)
  /\ orderSeq' >= orderSeq
  /\ \A o2 \in orders' : o2.id <= orderSeq'

\* C15: orders and their items are never removed or rewritten; only the
\* status of an order changes.
C15_OrdersAreAppendOnly == [][C15_StepKeepsOrders]_vars

\* C15 witness: a committed order with item rows has been cancelled and a
\* later order stands beside it.
C15_Witness ==
  \E o \in orders :
    /\ o.status = "cancelled"
    /\ ItemsOf(order_items, o.id) # {}
    /\ \E o2 \in orders : o2.id > o.id

\* C16: every persisted order item has a positive quantity, whatever item
\* list the caller sent.
C16_QuantitiesArePositive ==
  \A i \in order_items : i.quantity > 0

\* The instants of the window the bucket of the client stands for.
WindowOf(ip) ==
  {t \in Instants : /\ rateLimit[ip].resetTime - RATE_LIMIT_WINDOW <= t
                    /\ t <= rateLimit[ip].resetTime}

\* C17, the states: of the requests of a key counted in its current window,
\* the limiter has let pass the first 100 and no other.
C17_First100OfWindowAdmitted ==
  \A ip \in Clients :
    rateLimit[ip] # NoBucket
    => SumAdmitted(ip, WindowOf(ip)) =
         IF rateLimit[ip].count <= RATE_LIMIT_MAX_REQUESTS
           THEN rateLimit[ip].count ELSE RATE_LIMIT_MAX_REQUESTS

\* C17, the step of one request through the limiter: only the bucket of its
\* key changes; the bucket restarts at count 1 for 60 s on the first request
\* or after resetTime and is incremented otherwise; the request is refused
\* exactly when the new count is above 100, with retryAfter the seconds left
\* rounded up, between 0 and 60.
C17_LimiterStep ==
  nGw' = nGw + 1 =>
    LET ip == lastAnswered'.ip
        old == rateLimit[ip]
        new == rateLimit'[ip]
        left == new.resetTime - now
        retryAfter == lastAnswered'.body.retryAfter
    IN /\ \A other \in Clients \ {ip} : rateLimit'[other] = rateLimit[other]
       /\ IF old = NoBucket \/ now > old.resetTime
            THEN new = [count |-> 1, resetTime |-> now + 60000]
            ELSE new = [count |-> old.count + 1, resetTime |-> old.resetTime]
       /\ lastAnswered'.res = 429 <=> new.count > 100
       /\ lastAnswered'.res # 429 =>
            admitted' = [admitted EXCEPT ![ip][now] = @ + 1]
       /\ lastAnswered'.res = 429 =>
            /\ admitted' = admitted
            /\ retryAfter \in 0..60
            /\ retryAfter * 1000 >= left /\ (retryAfter - 1) * 1000 < left

\* C17: the rate limiter is a fixed window of 100 requests per 60 s and per
\* key.
C17_FixedWindowPerKey ==
  []C17_First100OfWindowAdmitted /\ [][C17_LimiterStep]_vars

\* C17 witness: the 101st request of a window arrives at its last instant and
\* is refused with retryAfter 0, while another key holds a bucket of its own.
C17_Witness ==
  /\ lastAnswered.res = 429 /\ lastAnswered.ip = "ip1"
  /\ lastAnswered.body.retryAfter = 0
  /\ rateLimit["ip1"].count = 101
  /\ rateLimit["ip2"].count = 1

\* C18, the states: a call in its validation loop at position k has looked up
\* exactly the items before k, in their order and once each, all with
\* success; a call one of whose lookups failed has failed once and is over.
C18_LookupsInOrder ==
  /\ \A r \in Reqs :
       (reqs[r].op = "createOrder" /\ reqs[r].pc = "lookup")
       => /\ reqs[r].k \in 1..Len(reqs[r].items)
          /\ Len(reqs[r].validatedItems) = reqs[r].k - 1
          /\ \A j \in 1..(reqs[r].k - 1) :
               reqs[r].validatedItems[j].productId = reqs[r].items[j].productId
          /\ \A f \in failedCalls : f.call # reqs[r].call
  /\ \A f \in failedCalls :
       /\ \A g \in failedCalls : g.call = f.call => g = f
       /\ \A r \in Reqs :
            (reqs[r].call = f.call /\ reqs[r].op = "createOrder")
            => reqs[r].pc = "done" /\ reqs[r].res = 400

\* C18, the step out of position k: the lookup of item k and of no other
\* item; on success the loop moves to k + 1, or leaves the loop after the last
\* item; on failure the call is answered 400 with the product id of item k.
C18_LookupStep ==
  \A r \in Reqs :
    (reqs[r].pc = "lookup" /\ reqs'[r] # reqs[r])
    => LET q == reqs[r]
           item == q.items[q.k]
       IN \/ /\ reqs'[r].pc = IF q.k = Len(q.items) THEN "insertOrder" ELSE "lookup"
             /\ q.k < Len(q.items) => reqs'[r].k = q.k + 1
             /\ Len(reqs'[r].validatedItems) = q.k
             /\ reqs'[r].validatedItems[q.k].productId = item.productId
             /\ \A j \in 1..(q.k - 1) :
                  reqs'[r].validatedItems[j] = q.validatedItems[j]
             /\ failedCalls' = failedCalls
          \/ /\ reqs'[r].pc = "done" /\ reqs'[r].res = 400
             /\ reqs'[r].body = ErrorBody(item.productId)
             /\ failedCalls' = failedCalls \cup {[call |-> q.call, k |-> q.k]}

\* C18: product lookups go in input order, one at a time and once per item,
\* and stop at the first failure, which is answered 400 naming that product.
C18_SequentialLookups == []C18_LookupsInOrder /\ [][C18_LookupStep]_vars

\* C18 witness: the lookup of the second item of a call failed after the
\* first had succeeded, and the answer names the second product.
C18_Witness ==
  \E r \in Reqs :
    /\ reqs[r].op = "createOrder" /\ reqs[r].pc = "done" /\ reqs[r].res = 400
    /\ Len(reqs[r].items) = 2
    /\ reqs[r].items[1].productId = "p1" /\ reqs[r].items[2].productId = "p9"
    /\ reqs[r].body = ErrorBody("p9")
    /\ [call |-> reqs[r].call, k |-> 2] \in failedCalls

\* C19: a transaction is open on a connection only for a createOrder call
\* whose items have all been validated and which is writing or committing
\* its rows.
C19_TransactionOnlyAfterValidation ==
  \A c \in Conns :
    conns[c].tx
    => \E r \in Reqs :
         /\ reqs[r].op = "createOrder" /\ reqs[r].client = c
         /\ reqs[r].pc \in {"insertOrder", "insertItems", "commit"}

\* C20: when two status updates of one order have both executed their UPDATE
\* and neither has answered yet, the stored status of the order is the one
\* written by the UPDATE that executed last.
C20_LastWriterWins ==
  \A r \in Reqs, x \in Reqs :
    (/\ r # x
     /\ reqs[r].op = "updateStatus" /\ reqs[r].pc = "reread"
     /\ reqs[x].op = "updateStatus" /\ reqs[x].pc = "reread"
     /\ reqs[r].orderId = reqs[x].orderId)
    => /\ lastUpdate[reqs[r].orderId] \in {reqs[r].status, reqs[x].status}
       /\ \A o \in orders :
            o.id = reqs[r].orderId => o.status = lastUpdate[o.id]

\* C21: an answered createOrder call says 201 exactly when an order of that
\* call is in the committed store; a call answered 500 has left no order.
C21_AnswerAgreesWithStore ==
  \A r \in Reqs :
    (reqs[r].op = "createOrder" /\ reqs[r].pc = "done" /\ reqs[r].call # 0)
    => (reqs[r].res = 201 <=> \E o \in orders : o.call = reqs[r].call)

\* C22: when updateStatus or cancelOrder answers 200, the committed row of
\* the order carries the status written last, which every connection of the
\* pool then reads.
C22_AcknowledgedChangeIsCommitted ==
  \A r \in Reqs :
    (/\ reqs[r].op \in {"updateStatus", "cancelOrder"}
     /\ reqs[r].pc = "done" /\ reqs[r].res = 200)
    => /\ \A o \in orders :
            o.id = reqs[r].orderId => o.status = lastUpdate[o.id]
       /\ \A d \in Conns : \A o \in ViewOrders(d) :
            o.id = reqs[r].orderId => o.status = lastUpdate[o.id]

\* C23: the order in the 200 response of updateStatus carries the status the
\* call asked for.
C23_ResponseCarriesRequestedStatus ==
  \A r \in Reqs :
    (reqs[r].op = "updateStatus" /\ reqs[r].pc = "done" /\ reqs[r].res = 200)
    => \A o \in reqs[r].body.order : o.status = reqs[r].status

\* C24: whatever caller id the verified token carries, the order that
\* getOrder returns and the order in the response of updateStatus belong to
\* that caller.
C24_ReturnedOrderBelongsToCaller ==
  \A r \in Reqs :
    (/\ reqs[r].op \in {"getOrder", "updateStatus"}
     /\ reqs[r].pc = "done" /\ reqs[r].res = 200)
    => \A o \in reqs[r].body.order : o.user_id = reqs[r].userId

\* C25, the step of a request of a key that has used up its window: while
\* the window lasts the request is refused and counted and resetTime stays
\* where it was; once resetTime has passed, however many requests were
\* refused, the request opens a new window with count 1 and is let through.
\* The passing of time alone changes no bucket.
C25_DeniedThenRecovers ==
  /\ nGw' = nGw + 1 =>
       LET ip == lastAnswered'.ip
           old == rateLimit[ip]
           new == rateLimit'[ip]
       IN old.count >= RATE_LIMIT_MAX_REQUESTS =>
            IF now <= old.resetTime
              THEN /\ lastAnswered'.res = 429
                   /\ new.resetTime = old.resetTime
                   /\ new.count = old.count + 1
              ELSE /\ lastAnswered'.res # 429
                   /\ new = [count |-> 1, resetTime |-> now + RATE_LIMIT_WINDOW]
                   /\ admitted'[ip][now] = admitted[ip][now] + 1
  /\ now' # now => rateLimit' = rateLimit

\* C25: a key that was refused is let through again by its first request
\* after resetTime, which the refused requests never move.
C25_DeniedClientRecovers == [][C25_DeniedThenRecovers]_vars

\* C25 witness: after 100 requests let through and two refused in the first
\* window, the request arriving one millisecond after resetTime was let
\* through in a new window.
C25_Witness ==
  /\ nGw = 103 /\ rateLimit["ip2"] = NoBucket
  /\ admitted["ip1"][0] = 100 /\ admitted["ip1"][RATE_LIMIT_WINDOW] = 0
  /\ admitted["ip1"][RATE_LIMIT_WINDOW + 1] = 1
  /\ rateLimit["ip1"] = [count |-> 1, resetTime |-> 2 * RATE_LIMIT_WINDOW + 1]
  /\ lastAnswered.res = 404

====
